---- MODULE Spec2Model ----
(***************************************************************************)
(* State-machine model of the image composition editor (renee2088/tuling). *)
(*                                                                         *)
(* The repository holds two revisions of the application component and of  *)
(* the layer component:                                                    *)
(*   revision "A": src/unnamed/part_002 lines 1-868 (theme, mobile sheet)  *)
(*                 with src/components/LayerComponent.tsx lines 1-317      *)
(*   revision "B": src/unnamed/part_002 lines 869-1667                     *)
(*                 with src/components/LayerComponent.tsx lines 320-547    *)
(* The variable `revision` is fixed by Init and selects whose handlers run.*)
(*                                                                         *)
(* Units: x, y are in tenths of a canonical pixel (the code computes       *)
(* width / 2 and height * 0.2, which need not be whole pixels); width and  *)
(* height are whole pixels (parseInt); scales are in tenths (slider and    *)
(* zoom step 0.1); a font size is an exact fraction [n, d].                *)
(***************************************************************************)
EXTENDS Integers, Sequences, FiniteSets, TLC

(* ------------------------------ bounds -------------------------------- *)
\* layers that may exist at once
MaxLayers == 3
\* uuidv4() draws in one run
MaxIds == 3
\* handleExport invocations that may be in flight at once
MaxExports == 2
\* file decodes (FileReader + Image) that may be in flight at once
MaxPending == 1
\* how many entries of ASPECT_RATIOS the user picks from
NumPresets == 2
\* how many distinct image files the user picks from
\* how many gesture and panel events on layers a session is followed for
MaxGestures == 2

\* the same, for the sessions that follow one kind of gesture further
LongGestures == 3

\* the same, for the sessions that follow two gestures on one layer
DeepGestures == 5

\* largest rotation, in degrees either way, the model follows
MaxAngle == 720

NumImages == 2

(* --------------------------- program constants ------------------------ *)
\* JavaScript null (state holding strings: image, selectedLayerId)
Null == "null"

\* an optional object: <<>> is null, <<v>> is the object v
None == << >>
Some(v) == << v >>

ASPECT_RATIOS ==
    << [name |-> "1:1",  width |-> 1080, height |-> 1080, label |-> "square"],
       [name |-> "4:3",  width |-> 1024, height |-> 768,  label |-> "standard"],
       [name |-> "3:4",  width |-> 768,  height |-> 1024, label |-> "portrait"],
       [name |-> "16:9", width |-> 1920, height |-> 1080, label |-> "landscape"],
       [name |-> "9:16", width |-> 1080, height |-> 1920, label |-> "phone"] >>

Frac(n, d) == [n |-> n, d |-> d]

INITIAL_TEXT_STYLE ==
    [ fontFamily      |-> "Noto Sans SC",
      fontSize        |-> Frac(42, 1),
      color           |-> "#ffffff",
      backgroundColor |-> "rgba(0,0,0,0)",
      fontWeight      |-> "bold",
      textAlign       |-> "center",
      padding         |-> 10,
      borderRadius    |-> 0,
      lineHeight      |-> "1.2" ]

INITIAL_BG_CONFIG == [scale |-> 10, x |-> 0, y |-> 0, filter |-> "none"]

\* the picked files: data URL and natural pixel size of the i-th file
ImageFiles == 1 .. NumImages
DataUrl(i) == "image" \o ToString(i)
NaturalSize(i) == [width |-> 600 + 41 * i, height |-> 400 + 81 * i]

OriginalFrame(size) ==
    [name |-> "original", width |-> size.width, height |-> size.height,
     label |-> "original"]

\* what the fit-to-screen effect of revision B may compute from the
\* container's size: Math.min(scaleW, scaleH, 0.8), in tenths
FitScales == {3, 8}

\* local state of a LayerComponent at mount; beside the component's own
\* state and Rnd's, two records of history: the layer as it was when the
\* resize in progress started, the last rotation handleMove computed
\* before snapping, and the layer's rotation and the pointer's angle when the
\* rotate gesture in progress started
FreshComponent ==
    [ isEditing |-> FALSE, isRotating |-> FALSE, rotateOffset |-> 0,
      resizeStartData |-> None, resizing |-> None,
      atResizeStart |-> None, candidate |-> 0, atRotateStart |-> None ]

(* ------------------------------- state -------------------------------- *)
VARIABLES
    revision,         \* "A" or "B": which revision of the sources runs
    isMobile,         \* revision A: window.innerWidth < 768
    image,            \* data URL of the background image, or Null
    originalSize,     \* None or Some([width, height]) of the loaded image
    layers,           \* the layer sequence, in paint order
    selectedLayerId,  \* id of the selected layer, or Null
    aspectRatio,      \* the canvas frame
    bgConfig,         \* background configuration
    isExporting,      \* the busy flag
    canvasScale,      \* interactive viewport zoom, in tenths
    nextId,           \* how many ids uuidv4() has handed out
    pending,          \* file decodes in flight, each with its handler's closure
    exports,          \* handleExport invocations: slot -> continuation state
    comp,             \* local state of each mounted LayerComponent, by layer id
    recording,        \* history: whether a request keeps a snapshot of the editor
    gestures,         \* gesture and panel events the session is still followed for
    effect,           \* what the last handler did towards the user
    caption,          \* the generateCaption call: where it stands and its result
    listeners         \* the event listeners layer components hold on window

vars == << caption, listeners, revision, isMobile, image, originalSize, layers, selectedLayerId,
           aspectRatio, bgConfig, isExporting, canvasScale, nextId, pending,
           exports, comp, recording, gestures, effect >>

\* the state a handler of the application leaves alone, by group
frameVars == << image, originalSize, aspectRatio, bgConfig >>
viewVars  == << revision, recording, caption, gestures, isMobile, canvasScale >>
asyncVars == << pending, exports, isExporting >>

ExportSlots == 1 .. MaxExports

\* a handleExport slot with no invocation in flight
IdleExport ==
    [ pc |-> "idle", originalSelection |-> Null, aspectRatio |-> None,
      attempts |-> << >>, atRequest |-> None ]

\* the observable outcome of a handler: which operation ran, on which id,
\* the alert() it raised ("" for none) and the file it offered for download
Effect(op, target, alert, download) ==
    [op |-> op, target |-> target, alert |-> alert, download |-> download]

Quiet(op, target) == Effect(op, target, "", None)

\* no generateCaption call made yet
IdleCaption ==
    [ pc |-> "idle", apiKey |-> None, topic |-> None, prompt |-> None,
      response |-> None, result |-> None ]

Init ==
    /\ revision \in {"A", "B"}
    /\ isMobile \in (IF revision = "A" THEN BOOLEAN ELSE {FALSE})
    /\ image = Null
    /\ originalSize = None
    /\ layers = << >>
    /\ selectedLayerId = Null
    /\ aspectRatio = ASPECT_RATIOS[1]
    /\ bgConfig = INITIAL_BG_CONFIG
    /\ isExporting = FALSE
    /\ canvasScale \in (IF revision = "A" THEN {6} ELSE FitScales)
    /\ nextId = 0
    /\ pending = {}
    /\ exports = [e \in ExportSlots |-> IdleExport]
    /\ comp = [id \in {} |-> FreshComponent]
    /\ recording \in BOOLEAN
    /\ gestures \in {MaxGestures, LongGestures, DeepGestures}
    /\ effect = Quiet("mount", Null)
    /\ caption = IdleCaption
    /\ listeners = {}

(* --------------------------- pure helpers ----------------------------- *)
\* object spread { ...l, ...u }: the fields of u override those of l
Merge(l, u) ==
    [k \in (DOMAIN l) \cup (DOMAIN u) |-> IF k \in DOMAIN u THEN u[k] ELSE l[k]]

LayerIds == {layers[i].id : i \in DOMAIN layers}

\* layers.find(l => l.id === selectedLayerId), as an optional
selectedLayer ==
    IF selectedLayerId \in LayerIds
    THEN Some(CHOOSE l \in {layers[i] : i \in DOMAIN layers} : l.id = selectedLayerId)
    ELSE None

\* uuidv4(): a fresh identifier
uuidv4 == "id" \o ToString(nextId + 1)

\* the glyphs of STICKERS the user picks from
StickerChoices == {"fire"}

\* revision B re-fits the viewport whenever aspectRatio or image changed
FitToScreen(changed) ==
    IF revision = "B" /\ changed
    THEN canvasScale' \in FitScales
    ELSE canvasScale' = canvasScale

NewTextLayer(id) ==
    [ id |-> id, type |-> "TEXT",
      x |-> 5 * aspectRatio.width - 2000,
      y |-> IF isMobile THEN 2 * aspectRatio.height
                        ELSE 5 * aspectRatio.height - 750,
      width |-> 400, height |-> 150, rotation |-> 0,
      content |-> "double-click to edit",
      style |-> INITIAL_TEXT_STYLE ]

\* a sticker that is given the style of a text
NewStickerLayerStyled(id, sticker) ==
    [ id |-> id, type |-> "STICKER",
      x |-> 5 * aspectRatio.width - 500,
      y |-> IF isMobile THEN 2 * aspectRatio.height
                        ELSE 5 * aspectRatio.height - 500,
      width |-> 150, height |-> 150, rotation |-> 0,
      content |-> sticker,
      style |-> INITIAL_TEXT_STYLE ]

NewStickerLayer(id, sticker) ==
    [ id |-> id, type |-> "STICKER",
      x |-> 5 * aspectRatio.width - 500,
      y |-> IF isMobile THEN 2 * aspectRatio.height
                        ELSE 5 * aspectRatio.height - 500,
      width |-> 150, height |-> 150, rotation |-> 0,
      content |-> sticker ]

(* --------------------------- store handlers --------------------------- *)
\* each handler states the state it sets; the event that calls it adds the
\* rest of the frame

NoImageAlert == "please upload an image first"

\* addTextLayer without its check for an image
addTextLayerUnguarded ==
    /\ Len(layers) < MaxLayers
    /\ nextId < MaxIds
    /\ layers' = Append(layers, NewTextLayer(uuidv4))
    /\ selectedLayerId' = uuidv4
    /\ nextId' = nextId + 1
    /\ effect' = Quiet("addText", uuidv4)

addTextLayer ==
    IF image = Null
    THEN /\ effect' = Effect("addText", Null, NoImageAlert, None)
         /\ UNCHANGED << layers, selectedLayerId, nextId >>
    ELSE /\ Len(layers) < MaxLayers
         /\ nextId < MaxIds
         /\ layers' = Append(layers, NewTextLayer(uuidv4))
         /\ selectedLayerId' = uuidv4
         /\ nextId' = nextId + 1
         /\ effect' = Quiet("addText", uuidv4)

\* an addStickerLayer that puts the new layer first
addStickerLayerPrepending(sticker) ==
    IF image = Null
    THEN /\ effect' = Effect("addSticker", Null, NoImageAlert, None)
         /\ UNCHANGED << layers, selectedLayerId, nextId >>
    ELSE /\ Len(layers) < MaxLayers
         /\ nextId < MaxIds
         /\ layers' = << NewStickerLayer(uuidv4, sticker) >> \o layers
         /\ selectedLayerId' = uuidv4
         /\ nextId' = nextId + 1
         /\ effect' = Quiet("addSticker", uuidv4)

addStickerLayer(sticker) ==
    IF image = Null
    THEN /\ effect' = Effect("addSticker", Null, NoImageAlert, None)
         /\ UNCHANGED << layers, selectedLayerId, nextId >>
    ELSE /\ Len(layers) < MaxLayers
         /\ nextId < MaxIds
         /\ layers' = Append(layers, NewStickerLayer(uuidv4, sticker))
         /\ selectedLayerId' = uuidv4
         /\ nextId' = nextId + 1
         /\ effect' = Quiet("addSticker", uuidv4)

\* an update that reaches every layer, whatever its id
updateLayerEvery(id, updates) ==
    layers' = [i \in DOMAIN layers |-> Merge(layers[i], updates)]

updateLayer(id, updates) ==
    layers' = [i \in DOMAIN layers |->
                  IF layers[i].id = id THEN Merge(layers[i], updates)
                                       ELSE layers[i]]

\* an updateLayerStyle that does not look at the kind of the layer
updateLayerStyleAnyKind(id, styleUpdates) ==
    layers' = [i \in DOMAIN layers |->
                  IF layers[i].id = id
                  THEN Merge(layers[i],
                             [style |-> IF "style" \in DOMAIN layers[i]
                                        THEN Merge(layers[i].style, styleUpdates)
                                        ELSE styleUpdates])
                  ELSE layers[i]]

updateLayerStyle(id, styleUpdates) ==
    layers' = [i \in DOMAIN layers |->
                  IF layers[i].id = id /\ layers[i].type = "TEXT"
                  THEN Merge(layers[i],
                             [style |-> Merge(layers[i].style, styleUpdates)])
                  ELSE layers[i]]

\* a deleteLayer that clears the selection whichever layer goes
deleteLayerClearing(id) ==
    /\ layers' = SelectSeq(layers, LAMBDA l : l.id # id)
    /\ selectedLayerId' = Null

deleteLayer(id) ==
    /\ layers' = SelectSeq(layers, LAMBDA l : l.id # id)
    /\ selectedLayerId' = IF selectedLayerId = id THEN Null ELSE selectedLayerId


(* ------------------------ layer component mounts ---------------------- *)
\* React keeps one LayerComponent per key (layer id): a component whose
\* layer stays keeps its state, a new layer mounts a fresh component, a
\* removed layer unmounts its component
Remount(ls) ==
    [id \in {ls[i].id : i \in DOMAIN ls} |->
        IF id \in DOMAIN comp THEN comp[id] ELSE FreshComponent]

\* the window listeners the rotation effect of layer id's component
\* attaches while isRotating: handleMove on the move events, handleUp on the
\* up events
Attached(id) ==
    {[owner |-> id, type |-> t] : t \in {"mousemove", "mouseup", "touchmove", "touchend"}}

\* a cleanup that forgets the touch listeners
RemovedMouseOnly(id) ==
    {[owner |-> id, type |-> t] : t \in {"mousemove", "mouseup"}}

\* the listeners the effect's cleanup removes
Removed(id) ==
    {[owner |-> id, type |-> t] : t \in {"mousemove", "mouseup", "touchmove", "touchend"}}

\* the components are reconciled with the layers ls; the effect cleanup of
\* every unmounted component runs
Mounted(ls) ==
    /\ comp' = Remount(ls)
    /\ listeners' = listeners \ UNION { Removed(id) :
                        id \in (DOMAIN comp) \ {ls[i].id : i \in DOMAIN ls} }

(* ---------------------------- image upload ---------------------------- *)
\* handleImageUpload up to reader.readAsDataURL: the decode is in flight and
\* its callbacks keep the image and aspectRatio of the render that created
\* the handler.  Revision A has two inputs: the first-upload input (shown
\* while there is no image) and the replace input.
PickFileAmong(files) ==
    \E f \in files, isReplace \in BOOLEAN :
        /\ Cardinality(pending) < MaxPending
        /\ IF revision = "A" THEN (isReplace \/ image = Null) ELSE ~isReplace
        /\ pending' = pending \cup
               { [ file |-> f, isReplace |-> isReplace, image |-> image,
                   aspectRatioName |-> aspectRatio.name ] }
        /\ effect' = Quiet("pickFile", Null)
        /\ UNCHANGED << frameVars, viewVars, layers, selectedLayerId, nextId,
                        exports, isExporting, comp, listeners >>

\* the user picks any of the files, or always the same one
PickFile == PickFileAmong(ImageFiles)

PickSameFile == PickFileAmong({1})

\* img.onload of a decode in flight
ImageLoaded ==
    \E p \in pending :
        LET size == NaturalSize(p.file)
            toOriginal ==
                \/ p.image = Null
                \/ (~p.isReplace /\ p.aspectRatioName = "original")
                \/ (p.isReplace /\ p.aspectRatioName = "original")
        IN  /\ pending' = pending \ {p}
            /\ originalSize' = Some(size)
            /\ aspectRatio' = IF toOriginal THEN OriginalFrame(size)
                                            ELSE aspectRatio
            /\ image' = DataUrl(p.file)
            /\ bgConfig' = INITIAL_BG_CONFIG
            /\ FitToScreen(toOriginal \/ image' # image)
            /\ effect' = Quiet("imageLoaded", Null)
            /\ UNCHANGED << revision, recording, caption, gestures, isMobile, layers, selectedLayerId, nextId,
                            exports, isExporting, comp, listeners >>

\* a reset that removes the image and keeps the layers
onResetKeepingLayers ==
    /\ layers' = layers
    /\ image' = Null
    /\ IF revision = "A"
       THEN bgConfig' = INITIAL_BG_CONFIG /\ UNCHANGED originalSize
       ELSE originalSize' = None /\ UNCHANGED bgConfig

\* the state setters of the reset button: revision A resets bgConfig,
\* layers and image, revision B image, layers and originalSize
onReset ==
    /\ layers' = << >>
    /\ image' = Null
    /\ IF revision = "A"
       THEN bgConfig' = INITIAL_BG_CONFIG /\ UNCHANGED originalSize
       ELSE originalSize' = None /\ UNCHANGED bgConfig

\* the reset button: revision A's sits in the desktop header controls,
\* revision B's header shows it while an image is loaded
Reset ==
    /\ IF revision = "A" THEN ~isMobile ELSE image # Null
    /\ onReset
    /\ FitToScreen(image # Null)
    /\ Mounted(layers')
    /\ effect' = Quiet("reset", Null)
    /\ UNCHANGED << revision, recording, caption, gestures, isMobile, aspectRatio, selectedLayerId, nextId,
                    asyncVars >>

(* ------------------------------ the frame ----------------------------- *)
\* a frame change that keeps the layers where they were in proportion
setAspectRatioRescaling(ratio) ==
    /\ aspectRatio' = ratio
    /\ layers' = [i \in DOMAIN layers |->
                    [layers[i] EXCEPT
                       !.x = (@ * ratio.width) \div aspectRatio.width,
                       !.y = (@ * ratio.height) \div aspectRatio.height]]
    /\ UNCHANGED << selectedLayerId, bgConfig >>

\* the state setter of the frame: no other state of the editor is set
setAspectRatio(ratio) ==
    /\ aspectRatio' = ratio
    /\ UNCHANGED << layers, selectedLayerId, bgConfig >>

SelectPreset ==
    \E i \in 1 .. NumPresets :
        /\ i \in DOMAIN ASPECT_RATIOS
        /\ setAspectRatio(ASPECT_RATIOS[i])
        /\ FitToScreen(aspectRatio' # aspectRatio)
        /\ effect' = Quiet("setAspectRatio", Null)
        /\ UNCHANGED << revision, recording, caption, gestures, isMobile, image, originalSize,
                        nextId, asyncVars, comp, listeners >>

SelectOriginal ==
    /\ originalSize # None
    /\ setAspectRatio(OriginalFrame(originalSize[1]))
    /\ FitToScreen(TRUE)
    /\ effect' = Quiet("setAspectRatio", Null)
    /\ UNCHANGED << revision, recording, caption, gestures, isMobile, image, originalSize,
                    nextId, asyncVars, comp, listeners >>

(* --------------------------- store events ----------------------------- *)
AddText ==
    /\ addTextLayer
    /\ Mounted(layers')
    /\ UNCHANGED << frameVars, viewVars, asyncVars >>

AddSticker ==
    \E sticker \in StickerChoices :
        /\ addStickerLayer(sticker)
        /\ Mounted(layers')
        /\ UNCHANGED << frameVars, viewVars, asyncVars >>

\* handleMouseDown of a layer component: layers render while an image is shown
SelectLayer ==
    \E id \in LayerIds :
        /\ image # Null
        /\ selectedLayerId' = id
        /\ effect' = Quiet("select", id)
        /\ UNCHANGED << frameVars, viewVars, asyncVars, layers, nextId, comp, listeners >>

\* canvas background, tool tabs, "select background": setSelectedLayerId(null)
ClearSelection ==
    /\ selectedLayerId' = Null
    /\ effect' = Quiet("select", Null)
    /\ UNCHANGED << frameVars, viewVars, asyncVars, layers, nextId, comp, listeners >>

\* the ids the user interface can hand to deleteLayer: the delete button of
\* the selection chrome and of the properties panel act on the selected
\* layer; revision B's Delete/Backspace key and sticker panel pass
\* selectedLayerId itself, whether or not a layer has it
DeleteTargets ==
    IF revision = "A"
    THEN {id \in LayerIds : id = selectedLayerId /\ image # Null}
    ELSE {id \in {selectedLayerId} : id # Null}

DeleteClick ==
    \E id \in DeleteTargets :
        /\ deleteLayer(id)
        /\ Mounted(layers')
        /\ effect' = Quiet("delete", id)
        /\ UNCHANGED << frameVars, viewVars, asyncVars, nextId >>


(* ------------------------------- export ------------------------------- *)
ExportFailedAlert == "export failed, please retry"

\* a capture configuration that takes its size from the zoomed viewport
commonConfigZoomed(frame) ==
    [ skipAutoScale |-> TRUE, pixelRatio |-> 1,
      width |-> (frame.width * canvasScale) \div 10,
      height |-> (frame.height * canvasScale) \div 10,
      canvasWidth |-> (frame.width * canvasScale) \div 10,
      canvasHeight |-> (frame.height * canvasScale) \div 10,
      transform |-> "none", transformOrigin |-> "top left" ]

\* commonConfig of handleExport, built from the aspectRatio its closure holds
commonConfig(frame) ==
    [ skipAutoScale |-> TRUE, pixelRatio |-> 1,
      width |-> frame.width, height |-> frame.height,
      canvasWidth |-> frame.width, canvasHeight |-> frame.height,
      transform |-> "none", transformOrigin |-> "top left" ]

\* a toPng(workspaceRef.current, {...commonConfig, cacheBust}) call; beside
\* its arguments the record keeps whether the capture node is mounted when
\* the call is made
CaptureCall(frame, cacheBust) ==
    [ cacheBust |-> cacheBust, config |-> commonConfig(frame),
      node |-> image # Null, outcome |-> "pending" ]

\* the PNG that toPng renders for a call: canvas size times pixel ratio
Artifact(call) ==
    [ width  |-> call.config.canvasWidth * call.config.pixelRatio,
      height |-> call.config.canvasHeight * call.config.pixelRatio ]

\* the export buttons: disabled={!image} in revision A,
\* disabled={!image || isExporting} in revision B
ExportEnabled ==
    IF revision = "A" THEN image # Null ELSE image # Null /\ ~isExporting

FreeSlot(e) ==
    /\ exports[e].pc = "idle"
    /\ \A d \in ExportSlots : d < e => exports[d].pc # "idle"

\* what the editor holds when an export is requested
Snapshot ==
    [ selectedLayerId |-> selectedLayerId, layers |-> layers,
      bgConfig |-> bgConfig, aspectRatio |-> aspectRatio, image |-> image ]

\* handleExport up to its first await (the 10 ms timer)
ExportRequest ==
    \E e \in ExportSlots :
        /\ ExportEnabled
        /\ FreeSlot(e)
        /\ isExporting' = TRUE
        /\ selectedLayerId' = Null
        /\ exports' = [exports EXCEPT ![e] =
               [ pc |-> "tick", originalSelection |-> selectedLayerId,
                 aspectRatio |-> Some(aspectRatio), attempts |-> << >>,
                 atRequest |-> IF recording THEN Some(Snapshot) ELSE None ]]
        /\ effect' = Quiet("exportRequest", Null)
        /\ UNCHANGED << frameVars, viewVars, layers, nextId, pending, comp, listeners >>

\* the timer fires: commonConfig is built and the fast attempt starts
ExportTick ==
    \E e \in ExportSlots :
        /\ exports[e].pc = "tick"
        /\ exports' = [exports EXCEPT ![e].pc = "fast",
               ![e].attempts = << CaptureCall(exports[e].aspectRatio[1], FALSE) >>]
        /\ effect' = Quiet("capture", Null)
        /\ UNCHANGED << frameVars, viewVars, layers, selectedLayerId, nextId,
                        pending, isExporting, comp, listeners >>

Settle(attempts, outcome) ==
    [attempts EXCEPT ![Len(attempts)].outcome = outcome]

\* a finally block that leaves the selection as the export finds it
ExportFinishKeepingSelection(e, attempts, ok) ==
    /\ isExporting' = FALSE
    /\ selectedLayerId' = selectedLayerId
    /\ exports' = [exports EXCEPT ![e] = IdleExport]
    /\ effect' = Effect("exportDone", Null,
                         IF ok THEN "" ELSE ExportFailedAlert,
                         IF ok THEN Some(Artifact(attempts[Len(attempts)]))
                               ELSE None)
    /\ UNCHANGED << frameVars, viewVars, layers, nextId, pending, comp, listeners >>

\* a finally block that leaves the busy flag as it is
ExportFinishStayingBusy(e, attempts, ok) ==
    /\ isExporting' = isExporting
    /\ selectedLayerId' = exports[e].originalSelection
    /\ exports' = [exports EXCEPT ![e] = IdleExport]
    /\ effect' = Effect("exportDone", Null,
                         IF ok THEN "" ELSE ExportFailedAlert,
                         IF ok THEN Some(Artifact(attempts[Len(attempts)]))
                               ELSE None)
    /\ UNCHANGED << frameVars, viewVars, layers, nextId, pending, comp, listeners >>

\* the rest of handleExport once dataUrl or the last error is known: the
\* download or the alert, then the finally block
ExportFinish(e, attempts, ok) ==
    /\ isExporting' = FALSE
    /\ selectedLayerId' = exports[e].originalSelection
    /\ exports' = [exports EXCEPT ![e] = IdleExport]
    /\ effect' = Effect("exportDone", Null,
                         IF ok THEN "" ELSE ExportFailedAlert,
                         IF ok THEN Some(Artifact(attempts[Len(attempts)]))
                               ELSE None)
    /\ UNCHANGED << frameVars, viewVars, layers, nextId, pending, comp, listeners >>

\* a fast attempt whose success still starts the cacheBust attempt
FastResolveThenRetry ==
    \E e \in ExportSlots :
        /\ exports[e].pc = "fast"
        /\ exports[e].attempts[1].node
        /\ exports' = [exports EXCEPT ![e].pc = "fallback",
               ![e].attempts =
                   Append(Settle(exports[e].attempts, "resolved"),
                          CaptureCall(exports[e].aspectRatio[1], TRUE))]
        /\ effect' = Quiet("capture", Null)
        /\ UNCHANGED << frameVars, viewVars, layers, selectedLayerId, nextId,
                        pending, isExporting, comp, listeners >>

\* toPng resolves with a data URL only for a mounted node
FastResolve ==
    \E e \in ExportSlots :
        /\ exports[e].pc = "fast"
        /\ exports[e].attempts[1].node
        /\ ExportFinish(e, Settle(exports[e].attempts, "resolved"), TRUE)

\* the fast attempt rejects: the catch block starts the cacheBust attempt
FastReject ==
    \E e \in ExportSlots :
        /\ exports[e].pc = "fast"
        /\ exports' = [exports EXCEPT ![e].pc = "fallback",
               ![e].attempts =
                   Append(Settle(exports[e].attempts, "rejected"),
                          CaptureCall(exports[e].aspectRatio[1], TRUE))]
        /\ effect' = Quiet("capture", Null)
        /\ UNCHANGED << frameVars, viewVars, layers, selectedLayerId, nextId,
                        pending, isExporting, comp, listeners >>

FallbackResolve ==
    \E e \in ExportSlots :
        /\ exports[e].pc = "fallback"
        /\ exports[e].attempts[2].node
        /\ ExportFinish(e, Settle(exports[e].attempts, "resolved"), TRUE)

\* a total failure that ends without telling the user
FallbackRejectSilent ==
    \E e \in ExportSlots :
        /\ exports[e].pc = "fallback"
        /\ isExporting' = FALSE
        /\ selectedLayerId' = exports[e].originalSelection
        /\ exports' = [exports EXCEPT ![e] = IdleExport]
        /\ effect' = Quiet("exportDone", Null)
        /\ UNCHANGED << frameVars, viewVars, layers, nextId, pending, comp, listeners >>

\* both attempts rejected: the outer catch alerts, then the finally block
FallbackReject ==
    \E e \in ExportSlots :
        /\ exports[e].pc = "fallback"
        /\ ExportFinish(e, Settle(exports[e].attempts, "rejected"), FALSE)


(* ------------------------- viewport and background -------------------- *)
\* window resize across the 768 px breakpoint (revision A tracks it)
WindowResize ==
    /\ revision = "A"
    /\ isMobile' = ~isMobile
    /\ effect' = Quiet("windowResize", Null)
    /\ UNCHANGED << revision, recording, caption, gestures, canvasScale, frameVars, asyncVars, layers,
                    selectedLayerId, nextId, comp, listeners >>

ZoomFloor == IF revision = "A" THEN 2 ELSE 1

\* the zoom controls: desktop header (A), below the active workspace (B)
ZoomEnabled == IF revision = "A" THEN ~isMobile ELSE image # Null

ZoomOut ==
    /\ ZoomEnabled
    /\ canvasScale' = IF canvasScale - 1 > ZoomFloor THEN canvasScale - 1
                                                     ELSE ZoomFloor
    /\ effect' = Quiet("zoom", Null)
    /\ UNCHANGED << revision, recording, caption, gestures, isMobile, frameVars, asyncVars, layers,
                    selectedLayerId, nextId, comp, listeners >>

ZoomIn ==
    /\ ZoomEnabled
    /\ canvasScale' = IF canvasScale + 1 < 20 THEN canvasScale + 1 ELSE 20
    /\ effect' = Quiet("zoom", Null)
    /\ UNCHANGED << revision, recording, caption, gestures, isMobile, frameVars, asyncVars, layers,
                    selectedLayerId, nextId, comp, listeners >>

\* the CSS transform list of the background: revision A styles the wrapper
\* with scale() translate(), revision B the image with translate() scale()
BackgroundTransform ==
    LET scale == [fn |-> "scale", k |-> bgConfig.scale]
        translate == [fn |-> "translate", x |-> bgConfig.x, y |-> bgConfig.y]
    IN  IF revision = "A" THEN << scale, translate >>
                          ELSE << translate, scale >>

\* a transform function is a map p |-> k * p + d (k in tenths, d in tenths
\* of a pixel); a transform list applies its functions from right to left
\* to a point: the map of << f, g >> is f after g
ListMap(list) ==
    LET AsMap(h) ==
            IF h.fn = "scale" THEN [k |-> h.k, dx |-> 0, dy |-> 0]
                              ELSE [k |-> 10, dx |-> 10 * h.x, dy |-> 10 * h.y]
        f == AsMap(list[1])
        g == AsMap(list[2])
    IN  [ k  |-> (f.k * g.k) \div 10,
          dx |-> (f.k * g.dx) \div 10 + f.dx,
          dy |-> (f.k * g.dy) \div 10 + f.dy ]

\* how far the composed background is moved, in tenths of a canonical pixel
BackgroundTranslation ==
    [x |-> ListMap(BackgroundTransform).dx, y |-> ListMap(BackgroundTransform).dy]

\* values the user gives the background controls
BgScales  == {10, 25}
BgOffsets == {0, 120}
FilterChoices == {"none", "grayscale(100%)"}

\* the background panel shows while no layer is selected (B: and an image is
\* loaded); the filter buttons are disabled without an image in revision B
BgPanelShown ==
    IF revision = "A" THEN selectedLayer = None
                      ELSE image # Null /\ selectedLayerId = Null

SetBackground ==
    \E field \in {"scale", "x", "y", "reset"} :
      \E v \in (IF field = "scale" THEN BgScales ELSE BgOffsets) :
        /\ BgPanelShown
        /\ bgConfig' = IF field = "reset" THEN INITIAL_BG_CONFIG
                       ELSE Merge(bgConfig, [f \in {field} |-> v])
        /\ effect' = Quiet("setBgConfig", Null)
        /\ UNCHANGED << image, originalSize, aspectRatio, viewVars, asyncVars,
                        layers, selectedLayerId, nextId, comp, listeners >>

SetFilter ==
    \E v \in FilterChoices :
        /\ revision = "B" => image # Null
        /\ bgConfig' = Merge(bgConfig, [filter |-> v])
        /\ effect' = Quiet("setBgConfig", Null)
        /\ UNCHANGED << image, originalSize, aspectRatio, viewVars, asyncVars,
                        layers, selectedLayerId, nextId, comp, listeners >>

(* ----------------------- layer component: helpers --------------------- *)
RECURSIVE Gcd(_, _)
Gcd(a, b) == IF b = 0 THEN a ELSE Gcd(b, a % b)

\* the fraction n / d (n >= 0, d > 0) in lowest terms
Reduced(n, d) == Frac(n \div Gcd(n, d), d \div Gcd(n, d))

\* Math.max(12, f)
AtLeast12(f) == IF f.n < 12 * f.d THEN Frac(12, 1) ELSE f

\* the scaled font size without its floor
ScaledFontSizeUnfloored(fontSize, newHeight, startHeight) ==
    Reduced(fontSize.n * newHeight, fontSize.d * startHeight)

\* Math.max(12, fontSize * (newHeight / startHeight))
ScaledFontSize(fontSize, newHeight, startHeight) ==
    AtLeast12(Reduced(fontSize.n * newHeight, fontSize.d * startHeight))

\* parseInt of a CSS length "<v>px", v given in tenths of a pixel
ParseIntPx(tenths) == tenths \div 10

\* JavaScript a % b: the remainder has the sign of a
JsRem(a, b) == IF a >= 0 THEN a % b ELSE 0 - ((0 - a) % b)

\* Math.round(n / d) for d > 0: halves round up
RoundDiv(n, d) == (2 * n + d) \div (2 * d)

\* the snapping of handleMove
SnapRotation(rotation) ==
    LET normalizedRot == (JsRem(rotation, 360) + 360) % 360
        turns == RoundDiv(rotation, 360) * 360
        Near(a) == (IF normalizedRot >= a THEN normalizedRot - a
                                          ELSE a - normalizedRot) < 5
    IN  IF normalizedRot < 5 \/ normalizedRot > 355 THEN turns
        ELSE IF Near(90) THEN turns + 90
        ELSE IF Near(180) THEN turns + 180
        ELSE IF Near(270) THEN turns + 270
        ELSE rotation

LayerOf(id) == CHOOSE l \in {layers[i] : i \in DOMAIN layers} : l.id = id

HasStyle(l) == "style" \in DOMAIN l

\* the layer component of revision A has the rotation handle
CanRotate == revision = "A"

isSelected(id) == selectedLayerId = id

\* the stacking class of the layer's Rnd element: z-50 when selected, z-10
\* otherwise
zIndex(l) == IF isSelected(l.id) THEN 50 ELSE 10

\* layers[j] is painted above layers[i]: the siblings rendered by layers.map
\* stack by z-index, and by their order in the tree when the z-index is equal
PaintedAbove(j, i) ==
    \/ zIndex(layers[j]) > zIndex(layers[i])
    \/ zIndex(layers[j]) = zIndex(layers[i]) /\ j > i

\* Rnd props disableDragging and enableResizing
disableDragging(id) ==
    comp[id].isEditing \/ (CanRotate /\ comp[id].isRotating)

enableResizing(id) ==
    isSelected(id) /\ ~comp[id].isEditing /\ ~(CanRotate /\ comp[id].isRotating)

\* the selection border with its handles, rotation handle and delete button
ChromeShown(id) == isSelected(id) /\ ~comp[id].isEditing

Corners == {"topLeft", "topRight", "bottomLeft", "bottomRight"}
Edges   == {"top", "right", "bottom", "left"}
Horizontal(dir) == dir \in Corners \cup {"left", "right"}
Vertical(dir)   == dir \in Corners \cup {"top", "bottom"}
FromLeft(dir)   == dir \in {"left", "topLeft", "bottomLeft"}
FromTop(dir)    == dir \in {"top", "topLeft", "topRight"}

(* ------------------------ the user's pointer inputs ------------------- *)
\* where a drag may drop a layer (tenths of a pixel)
DragPositions == { [x |-> 1205, y |-> 640] }

\* element sizes the pointer asks for during a resize (tenths of a pixel)
RawSizes == {120, 2255}

\* Rnd props minWidth={30} minHeight={30}, in tenths of a pixel
minWidth == 300
minHeight == 300

\* a resize that takes the requested length as it is
NoMinimum(min, length) == length

\* Rnd keeps a requested length at or above its minimum
AtLeast(min, length) == IF length < min THEN min ELSE length

\* pointer angles about the layer's centre, in degrees (Math.atan2)
PointerAngles == {0, 88}

\* the handles a resize is tried from: a corner that keeps the position, a
\* corner that moves it, and an edge
ResizeHandles == {"bottomRight", "topLeft", "bottom"}

\* text typed into a text layer
TypedTexts == {"hello"}

(* ----------------------- layer component: events ----------------------- *)
\* the state of the application a layer component never sets
appVars == << frameVars, revision, recording, caption, isMobile, canvasScale,
             asyncVars, nextId >>

\* one more gesture or panel event of the session
Gesture == gestures > 0 /\ gestures' = gestures - 1

\* the local state of layer id's component becomes c
SetComponent(id, c) == comp' = [comp EXCEPT ![id] = c] /\ listeners' = listeners

\* Rnd onDragStop: the drop position d
DragStop ==
    \E id \in LayerIds, d \in DragPositions :
        /\ ~disableDragging(id)
        /\ updateLayer(id, [x |-> d.x, y |-> d.y])
        /\ effect' = Quiet("drag", id)
        /\ Gesture
        /\ UNCHANGED << appVars, selectedLayerId, comp, listeners >>

\* a ref that is filled by the first gesture and kept from then on
StartDataKept(layer, current) ==
    IF layer.type = "TEXT" /\ HasStyle(layer) /\ current = None
    THEN Some([ width |-> layer.width, height |-> layer.height,
                fontSize |-> layer.style.fontSize ])
    ELSE current

\* resizeStartData.current after onResizeStart: the size and font size of a
\* text layer as the gesture starts, and what the ref held for other layers
StartData(layer, current) ==
    IF layer.type = "TEXT" /\ HasStyle(layer)
    THEN Some([ width |-> layer.width, height |-> layer.height,
                fontSize |-> layer.style.fontSize ])
    ELSE current

\* Rnd onResizeStart on one of the enabled handles; Rnd itself keeps the
\* handle and the box the gesture started from
ResizeStart ==
    \E id \in LayerIds, dir \in ResizeHandles :
        LET layer == LayerOf(id)
            box == [ direction |-> dir, width |-> layer.width,
                     height |-> layer.height, x |-> layer.x, y |-> layer.y ]
        IN  /\ enableResizing(id)
            /\ comp[id].resizing = None
            /\ SetComponent(id,
                  [comp[id] EXCEPT
                     !.resizing = Some(box),
                     !.atResizeStart = Some(layer),
                     !.resizeStartData = StartData(layer, @)])
            /\ effect' = Quiet("resizeStart", id)
            /\ Gesture
            /\ UNCHANGED << appVars, layers, selectedLayerId >>

\* what Rnd may report for a resize that started from box: the element's
\* size in tenths of a pixel and its position.  A handle moves only its own
\* sides, lockAspectRatio keeps the proportions of the starting box, and
\* neither side goes below minWidth / minHeight.
RndReports(layer, box) ==
    LET dir == box.direction
        locked == layer.type = "STICKER"
        widths  == IF Horizontal(dir) \/ locked
                   THEN {AtLeast(minWidth, w) : w \in RawSizes}
                   ELSE {10 * layer.width}
        heights == IF Vertical(dir) \/ locked
                   THEN {AtLeast(minHeight, h) : h \in RawSizes}
                   ELSE {10 * layer.height}
    IN  { [ width |-> w, height |-> h,
            x |-> IF FromLeft(dir) THEN box.x + 10 * box.width - w ELSE box.x,
            y |-> IF FromTop(dir) THEN box.y + 10 * box.height - h ELSE box.y ] :
          <<w, h>> \in { wh \in widths \X heights :
                           locked => wh[1] * box.height = wh[2] * box.width } }

\* the updates onResize hands to onUpdate
ResizeUpdates(layer, startData, r, direction) ==
    LET newWidth == ParseIntPx(r.width)
        newHeight == ParseIntPx(r.height)
        updates == [ width |-> newWidth, height |-> newHeight,
                     x |-> r.x, y |-> r.y ]
        isCorner == direction \in Corners
    IN  IF layer.type = "TEXT" /\ HasStyle(layer) /\ startData # None /\ isCorner
        THEN Merge(updates,
                   [ style |-> Merge(layer.style,
                        [ fontSize |-> ScaledFontSize(startData[1].fontSize,
                                                      newHeight,
                                                      startData[1].height) ]) ])
        ELSE updates

\* Rnd onResize: one pointer move of a resize in progress
Resize ==
    \E id \in LayerIds :
        /\ comp[id].resizing # None
        /\ \E r \in RndReports(LayerOf(id), comp[id].resizing[1]) :
              updateLayer(id, ResizeUpdates(LayerOf(id), comp[id].resizeStartData,
                                            r, comp[id].resizing[1].direction))
        /\ effect' = Quiet("resize", id)
        /\ Gesture
        /\ UNCHANGED << appVars, selectedLayerId, comp, listeners >>

\* pointer-up of a resize: Rnd ends the gesture, the component has no handler
ResizeStop ==
    \E id \in LayerIds :
        /\ comp[id].resizing # None
        /\ SetComponent(id, [comp[id] EXCEPT !.resizing = None,
                                              !.atResizeStart = None])
        /\ effect' = Quiet("resizeStop", id)
        /\ Gesture
        /\ UNCHANGED << appVars, layers, selectedLayerId >>

\* the model follows rotations up to MaxAngle degrees either way
InRange(rotation) == rotation <= MaxAngle /\ 0 - rotation <= MaxAngle

\* handleRotateStart on the rotation handle of the selection chrome; the
\* effect of the render that follows attaches the window listeners
RotateStart ==
    \E id \in LayerIds, startAngle \in PointerAngles :
        /\ CanRotate
        /\ ChromeShown(id)
        /\ ~comp[id].isRotating
        /\ comp' = [comp EXCEPT ![id] =
              [comp[id] EXCEPT
                 !.isRotating = TRUE,
                 !.rotateOffset = startAngle - LayerOf(id).rotation,
                 !.atRotateStart = Some([ rotation |-> LayerOf(id).rotation,
                                          angle |-> startAngle ])]]
        /\ listeners' = listeners \cup Attached(id)
        /\ effect' = Quiet("rotateStart", id)
        /\ Gesture
        /\ UNCHANGED << appVars, layers, selectedLayerId >>

\* handleMove, called through a move listener on window
RotateMove ==
    \E l \in listeners, deg \in PointerAngles :
        LET id == l.owner
        IN  /\ l.type \in {"mousemove", "touchmove"}
            /\ id \in DOMAIN comp
            /\ InRange(SnapRotation(deg - comp[id].rotateOffset))
            /\ updateLayer(id, [rotation |-> SnapRotation(deg - comp[id].rotateOffset)])
            /\ SetComponent(id,
                  [comp[id] EXCEPT !.candidate = deg - comp[id].rotateOffset])
            /\ effect' = Quiet("rotate", id)
            /\ Gesture
            /\ UNCHANGED << appVars, selectedLayerId >>

\* handleUp, called through an up listener on window; the cleanup of the
\* render that follows removes the listeners
RotateEnd ==
    \E l \in listeners :
        LET id == l.owner
        IN  /\ l.type \in {"mouseup", "touchend"}
            /\ id \in DOMAIN comp
            /\ comp' = [comp EXCEPT ![id] =
                  [comp[id] EXCEPT !.isRotating = FALSE,
                                   !.atRotateStart = None]]
            /\ listeners' = listeners \ Removed(id)
            /\ effect' = Quiet("rotateEnd", id)
            /\ Gesture
            /\ UNCHANGED << appVars, layers, selectedLayerId >>

\* handleDoubleClick: a double click starts with the mouse down that selects
StartEditing ==
    \E id \in LayerIds :
        /\ LayerOf(id).type = "TEXT"
        /\ ~comp[id].isEditing
        /\ selectedLayerId' = id
        /\ SetComponent(id, [comp[id] EXCEPT !.isEditing = TRUE])
        /\ effect' = Quiet("edit", id)
        /\ Gesture
        /\ UNCHANGED << appVars, layers >>

\* onChange of the textarea shown while editing
TypeText ==
    \E id \in LayerIds, text \in TypedTexts :
        /\ comp[id].isEditing
        /\ HasStyle(LayerOf(id))
        /\ updateLayer(id, [content |-> text])
        /\ effect' = Quiet("type", id)
        /\ Gesture
        /\ UNCHANGED << appVars, selectedLayerId, comp, listeners >>

\* handleBlur
StopEditing ==
    \E id \in LayerIds :
        /\ comp[id].isEditing
        /\ SetComponent(id, [comp[id] EXCEPT !.isEditing = FALSE])
        /\ effect' = Quiet("blur", id)
        /\ Gesture
        /\ UNCHANGED << appVars, layers, selectedLayerId >>

(* --------------------------- properties panel ------------------------ *)
\* the text properties are shown for a selected text layer
TextPanelShown ==
    /\ selectedLayer # None
    /\ selectedLayer[1].type = "TEXT"
    /\ (revision = "A" => HasStyle(selectedLayer[1]))

\* font sizes the control can produce: revision A's range input runs from
\* 12 to 200, revision B's number input takes whatever integer is typed
FontSizeInputs == IF revision = "A" THEN {12, 200} ELSE {8, 200}

SetFontSize ==
    \E v \in FontSizeInputs :
        /\ TextPanelShown
        /\ updateLayerStyle(selectedLayer[1].id, [fontSize |-> Frac(v, 1)])
        /\ effect' = Quiet("setStyle", selectedLayerId)
        /\ Gesture
        /\ UNCHANGED << appVars, selectedLayerId, comp, listeners >>

ToggleBold ==
    /\ TextPanelShown
    /\ updateLayerStyle(selectedLayer[1].id,
          [fontWeight |-> IF selectedLayer[1].style.fontWeight = "bold"
                          THEN "normal" ELSE "bold"])
    /\ effect' = Quiet("setStyle", selectedLayerId)
    /\ Gesture
    /\ UNCHANGED << appVars, selectedLayerId, comp, listeners >>

\* the content box of the panel
PanelTypeText ==
    \E text \in TypedTexts :
        /\ TextPanelShown
        /\ updateLayer(selectedLayer[1].id, [content |-> text])
        /\ effect' = Quiet("type", selectedLayerId)
        /\ Gesture
        /\ UNCHANGED << appVars, selectedLayerId, comp, listeners >>

(* ------------------------ the store as an interface ------------------- *)
\* every id uuidv4 can hand out, whether or not a layer has it now
AnyIds == { "id" \o ToString(i) : i \in 1 .. MaxIds }

\* deleteLayer called with any id
CallDelete ==
    \E id \in AnyIds :
        /\ deleteLayer(id)
        /\ Mounted(layers')
        /\ effect' = Quiet("delete", id)
        /\ UNCHANGED << frameVars, viewVars, asyncVars, nextId >>

\* fields handed to updateLayer and to updateLayerStyle
UpdateInputs == { [x |-> 0, y |-> 0], [rotation |-> 90] }

StyleInputs == { [fontWeight |-> "bold"] }

\* updateLayer called with any id
CallUpdate ==
    \E id \in AnyIds, updates \in UpdateInputs :
        /\ updateLayer(id, updates)
        /\ effect' = Quiet("update", id)
        /\ UNCHANGED << frameVars, viewVars, asyncVars, nextId,
                        selectedLayerId, comp, listeners >>

\* updateLayerStyle called with any id
CallUpdateStyle ==
    \E id \in AnyIds, styleUpdates \in StyleInputs :
        /\ updateLayerStyle(id, styleUpdates)
        /\ effect' = Quiet("updateStyle", id)
        /\ UNCHANGED << frameVars, viewVars, asyncVars, nextId,
                        selectedLayerId, comp, listeners >>

(* --------------------------- caption service -------------------------- *)
\* strings are sequences of characters here, so that trim() can be computed
Blank == " "

\* the fixed caption generateCaption falls back to
FALLBACK_CAPTION == << "f", "i", "n", "e", Blank, "d", "a", "y" >>

\* String.prototype.trim(): without its leading and trailing white space
RECURSIVE TrimStart(_)
TrimStart(text) ==
    IF text # << >> /\ Head(text) = Blank THEN TrimStart(Tail(text)) ELSE text

RECURSIVE TrimEnd(_)
TrimEnd(text) ==
    IF text # << >> /\ text[Len(text)] = Blank
    THEN TrimEnd(SubSeq(text, 1, Len(text) - 1))
    ELSE text

\* a caption service that hands the text over as it came
Untrimmed(text) == text

Trim(text) == TrimEnd(TrimStart(text))

\* process.env.API_KEY: unset, empty or set
ApiKeys == { None, Some(<< >>), Some(<< "k" >>) }

\* the optional topic argument: left out, empty or given
Topics == { None, Some(<< >>), Some(<< "s", "e", "a" >>) }

\* response.text of a generation call that resolved: None when the response
\* carries no text
ResponseTexts ==
    { None, Some(<< >>), Some(<< Blank >>), Some(<< "h", "i" >>),
      Some(<< Blank, "h", "i" >>), Some(<< "h", "i", Blank >>),
      Some(<< Blank, "h", Blank, "i", Blank >>) }

\* JavaScript truthiness of an optional string
Truthy(s) == s # None /\ s[1] # << >>

\* generateCaption up to its await: getClient() throws without a key, which
\* the catch turns into the fallback caption; the prompt is about the topic
\* when one is given and generic otherwise
CaptionCall ==
    \E topic \in Topics, apiKey \in ApiKeys :
        /\ caption.pc # "calling"
        /\ caption' =
             IF ~Truthy(apiKey)
             THEN [ pc |-> "done", apiKey |-> apiKey, topic |-> topic,
                    prompt |-> None, response |-> None,
                    result |-> Some(FALLBACK_CAPTION) ]
             ELSE [ pc |-> "calling", apiKey |-> apiKey, topic |-> topic,
                    prompt |-> Some([about |-> IF Truthy(topic) THEN topic[1]
                                                     ELSE << >>]), response |-> None,
                    result |-> None ]
        /\ UNCHANGED << revision, recording, gestures, isMobile, canvasScale,
                        frameVars, asyncVars, layers, selectedLayerId,
                        nextId, comp, listeners, effect >>

\* ai.models.generateContent resolved: response.text.trim() is returned,
\* and throws into the catch when the response has no text
CaptionResolved ==
    \E text \in ResponseTexts :
        /\ caption.pc = "calling"
        /\ caption' =
             [caption EXCEPT
                !.pc = "done",
                !.response = Some([text |-> text]),
                !.result = IF text = None THEN Some(FALLBACK_CAPTION)
                           ELSE Some(Trim(text[1]))]
        /\ UNCHANGED << revision, recording, gestures, isMobile, canvasScale,
                        frameVars, asyncVars, layers, selectedLayerId,
                        nextId, comp, listeners, effect >>

\* ai.models.generateContent rejected: the catch returns the fallback
CaptionRejected ==
    /\ caption.pc = "calling"
    /\ caption' = [caption EXCEPT !.pc = "done",
                                  !.result = Some(FALLBACK_CAPTION)]
    /\ UNCHANGED << revision, recording, gestures, isMobile, canvasScale,
                    frameVars, asyncVars, layers, selectedLayerId,
                    nextId, comp, listeners, effect >>

(* --------------------------- specifications --------------------------- *)
\* the application as constructed, with and without the history of requests
PlainInit == Init /\ recording = FALSE /\ gestures = MaxGestures

\* the same, followed for more gesture events
LongInit == Init /\ recording = FALSE /\ gestures = LongGestures

\* the same, followed through a second gesture
DeepInit == Init /\ recording = FALSE /\ gestures = DeepGestures

AuditInit == Init /\ recording = TRUE /\ gestures = MaxGestures

ExportNext ==
    \/ ExportRequest \/ ExportTick
    \/ FastResolve \/ FastReject \/ FallbackResolve \/ FallbackReject

\* the export pipeline among image load, reset and the store events that
\* move the selection
ExportSpecNext ==
    \/ PickSameFile \/ ImageLoaded \/ Reset
    \/ AddText \/ SelectLayer \/ ClearSelection \/ DeleteClick
    \/ ExportNext

ExportSpec == PlainInit /\ [][ExportSpecNext]_vars

\* a step of invocation e past an await: the timer fires, or a capture
\* attempt resolves or rejects
Continues(e) ==
    /\ exports[e].pc # "idle"
    /\ ExportTick \/ FastResolve \/ FastReject \/ FallbackResolve \/ FallbackReject
    /\ exports'[e] # exports[e]

\* the export pipeline among image load and reset
LiveNext ==
    \/ PickSameFile \/ ImageLoaded \/ Reset
    \/ ExportNext

\* the timer of every invocation fires and each of its capture attempts
\* eventually resolves or rejects
LiveSpec ==
    /\ PlainInit
    /\ [][LiveNext]_vars
    /\ \A e \in ExportSlots : WF_vars(Continues(e))

\* the same pipeline with the snapshot history kept, among the events that
\* change what an export is said to leave alone
AuditNext ==
    \/ PickSameFile \/ ImageLoaded
    \/ AddText \/ SelectLayer
    \/ SetFilter
    \/ ExportNext

AuditSpec == AuditInit /\ [][AuditNext]_vars

\* the export pipeline under viewport zoom and frame changes
ZoomNext ==
    \/ PickSameFile \/ ImageLoaded
    \/ SelectPreset \/ ZoomIn \/ ZoomOut
    \/ ExportNext

ZoomSpec == PlainInit /\ [][ZoomNext]_vars

\* the layers: the store operations and the drag, resize and rotate updates
LayerNext ==
    \/ PickSameFile \/ ImageLoaded
    \/ AddText \/ AddSticker
    \/ SelectLayer \/ DeleteClick
    \/ SetFontSize
    \/ DragStop
    \/ ResizeStart \/ Resize \/ ResizeStop
    \/ RotateStart \/ RotateMove \/ RotateEnd

LayerSpec == PlainInit /\ [][LayerNext]_vars

\* resizes of text and sticker layers, with font-size edits in between
ResizeNext ==
    \/ PickSameFile \/ ImageLoaded
    \/ AddText \/ AddSticker
    \/ SelectLayer
    \/ SetFontSize
    \/ ResizeStart \/ Resize \/ ResizeStop

ResizeSpec == LongInit /\ [][ResizeNext]_vars

\* one resize gesture after another on text layers
RegestureNext ==
    \/ PickSameFile \/ ImageLoaded
    \/ AddText
    \/ ResizeStart \/ Resize \/ ResizeStop

RegestureSpec == DeepInit /\ [][RegestureNext]_vars

\* one rotate gesture after another on text layers
RotateNext ==
    \/ PickSameFile \/ ImageLoaded
    \/ AddText \/ DeleteClick
    \/ RotateStart \/ RotateMove \/ RotateEnd

RotateSpec == DeepInit /\ [][RotateNext]_vars

\* the background: image loads, reset, frame and background controls
BackgroundNext ==
    \/ PickSameFile \/ ImageLoaded \/ Reset
    \/ SelectPreset \/ SelectOriginal
    \/ SetBackground \/ SetFilter

BackgroundSpec == PlainInit /\ [][BackgroundNext]_vars

\* frame choices on an editor that holds layers and a moved background
FrameNext ==
    \/ PickSameFile \/ ImageLoaded
    \/ AddText \/ AddSticker
    \/ SelectLayer
    \/ SelectPreset \/ SelectOriginal
    \/ SetBackground

FrameSpec == PlainInit /\ [][FrameNext]_vars

\* uploads of different files among frame choices and resets
UploadNext ==
    \/ PickFile \/ ImageLoaded \/ Reset
    \/ SelectPreset \/ SelectOriginal

UploadSpec == PlainInit /\ [][UploadNext]_vars

StoreNext ==
    \/ PickSameFile \/ ImageLoaded \/ Reset
    \/ AddText \/ AddSticker
    \/ SelectLayer \/ ClearSelection
    \/ DeleteClick \/ CallDelete
    \/ CallUpdate \/ CallUpdateStyle

StoreSpec == PlainInit /\ [][StoreNext]_vars

\* the caption service on its own
CaptionNext == CaptionCall \/ CaptionResolved \/ CaptionRejected

CaptionSpec == PlainInit /\ [][CaptionNext]_vars

(* ------------------------------ properties ---------------------------- *)
\* the handleExport invocations in flight
InFlight == {e \in ExportSlots : exports[e].pc # "idle"}

\* a step in which invocation e starts a capture attempt
CaptureStarts(e) == Len(exports'[e].attempts) > Len(exports[e].attempts)

\* a step in which invocation e runs its finally block
Finishes(e) == exports[e].pc # "idle" /\ exports'[e].pc = "idle"

\* a step in which invocation e ends after both of its attempts rejected
FailsTotally(e) ==
    /\ exports[e].pc = "fallback"
    /\ Finishes(e)
    /\ effect'.download = None

\* C1: in every reachable state the selection is none or the id of a layer
\* that is in the layer sequence
C1_SelectionIsLive ==
    selectedLayerId = Null \/ selectedLayerId \in LayerIds

\* C2: in every reachable state at most one export is in progress
C2_AtMostOneExport == Cardinality(InFlight) <= 1

\* C3: whenever an export finishes, by a download or by the failure of both
\* attempts, the selection right after it is the selection the editor had
\* when that export was requested
C3_SelectionRestored ==
    [][ \A e \in ExportSlots :
            Finishes(e) =>
                selectedLayerId' = exports[e].atRequest[1].selectedLayerId ]_vars

\* C3 happens: an export has finished and a layer is selected again
C3_Witness ==
    /\ effect.op = "exportDone"
    /\ selectedLayerId \in LayerIds
    /\ recording

\* C4: at every step that starts a capture attempt, fast or fallback, no
\* layer is selected
C4_NoSelectionAtCapture ==
    [][ \A e \in ExportSlots : CaptureStarts(e) => selectedLayerId = Null ]_vars

\* C5: an export makes at most two capture attempts, one after the other:
\* the first without cacheBust, the second with cacheBust and only after the
\* first was rejected, and only the latest attempt is ever outstanding
C5_AttemptsInSequence ==
    \A e \in ExportSlots :
        LET a == exports[e].attempts
        IN  /\ Len(a) <= 2
            /\ Len(a) >= 1 => ~a[1].cacheBust
            /\ Len(a) = 2 => a[1].outcome = "rejected" /\ a[2].cacheBust
            /\ \A i \in DOMAIN a : i < Len(a) => a[i].outcome # "pending"
            /\ exports[e].pc = "fast" => Len(a) = 1
            /\ exports[e].pc = "fallback" => Len(a) = 2
            /\ exports[e].pc \in {"idle", "tick"} => Len(a) = 0

\* C5 happens: the fallback attempt is running after a rejected fast attempt
C5_Witness ==
    \E e \in ExportSlots :
        /\ exports[e].pc = "fallback"
        /\ exports[e].attempts[2].outcome = "pending"

\* C6 as stated: when both attempts fail the user is alerted, nothing is
\* downloaded, and layers, selection, background configuration, frame and
\* image are what they were when the export was requested
C6_StateAsAtRequest ==
    [][ \A e \in ExportSlots :
            FailsTotally(e) =>
                /\ effect'.alert = ExportFailedAlert
                /\ effect'.download = None
                /\ selectedLayerId' = exports[e].atRequest[1].selectedLayerId
                /\ layers' = exports[e].atRequest[1].layers
                /\ bgConfig' = exports[e].atRequest[1].bgConfig
                /\ aspectRatio' = exports[e].atRequest[1].aspectRatio
                /\ image' = exports[e].atRequest[1].image ]_vars

\* C6 amended: when both attempts fail the user is alerted, nothing is
\* downloaded and the selection is what it was when the export was
\* requested; no step of an export changes layers, background
\* configuration, frame or image
C6_FailureLeavesEditor ==
    [][ /\ \A e \in ExportSlots :
              FailsTotally(e) =>
                  /\ effect'.alert = ExportFailedAlert
                  /\ effect'.download = None
                  /\ selectedLayerId' = exports[e].atRequest[1].selectedLayerId
        /\ exports' # exports =>
              UNCHANGED << layers, bgConfig, aspectRatio, image >> ]_vars

\* C6 happens: an export has ended in the alert, with nothing downloaded,
\* in an editor that has layers
C6_Witness ==
    /\ effect.op = "exportDone"
    /\ effect.alert = ExportFailedAlert
    /\ effect.download = None
    /\ recording
    /\ layers # << >>

\* C7: every capture attempt asks for the width and height of the frame the
\* export was requested with, at pixel ratio 1 and with the viewport
\* transform removed, whatever the zoom is; the file offered for download
\* has that size
C7_OutputSizeIsFrame ==
    [][ \A e \in ExportSlots :
            /\ exports[e].pc = "idle" /\ exports'[e].pc = "tick" =>
                  exports'[e].aspectRatio = Some(aspectRatio)
            /\ CaptureStarts(e) =>
                  LET call == exports'[e].attempts[Len(exports'[e].attempts)]
                      frame == exports[e].aspectRatio[1]
                  IN  /\ call.config.width = frame.width
                      /\ call.config.height = frame.height
                      /\ call.config.canvasWidth = frame.width
                      /\ call.config.canvasHeight = frame.height
                      /\ call.config.pixelRatio = 1
                      /\ call.config.transform = "none"
            /\ Finishes(e) /\ effect'.download # None =>
                  effect'.download[1] =
                      [ width |-> exports[e].aspectRatio[1].width,
                        height |-> exports[e].aspectRatio[1].height ] ]_vars

\* C7 happens: a capture is in flight while the viewport is zoomed to 200 %
C7_Witness ==
    \E e \in ExportSlots :
        /\ exports[e].pc \in {"fast", "fallback"}
        /\ canvasScale = 20
        /\ exports[e].attempts[1].config.width = aspectRatio.width


\* C8: in every reachable state a layer has a style record exactly when it
\* is a text layer, whatever store operations and drag, resize and rotate
\* updates came before
C8_StyleIffText ==
    \A i \in DOMAIN layers : HasStyle(layers[i]) <=> layers[i].type = "TEXT"

\* C8 happens: a resize has just updated a text layer next to a sticker
C8_Witness ==
    /\ effect.op = "resize"
    /\ effect.target \in LayerIds
    /\ LayerOf(effect.target).type = "TEXT"
    /\ \E i \in DOMAIN layers : layers[i].type = "STICKER"

\* C9: with no background image loaded, addText and addSticker change
\* neither the layer sequence nor the selection and raise the notice that
\* asks for an image
C9_AddNeedsImage ==
    [][ (image = Null /\ effect'.op \in {"addText", "addSticker"}) =>
            /\ layers' = layers
            /\ selectedLayerId' = selectedLayerId
            /\ effect'.alert = NoImageAlert ]_vars

\* C9 happens: an add was refused for want of an image while the selection
\* still held an id
C9_Witness ==
    /\ image = Null
    /\ effect.op \in {"addText", "addSticker"}
    /\ effect.alert = NoImageAlert
    /\ selectedLayerId # Null

\* where the layer with this id sits in a layer sequence
Position(seq, id) == CHOOSE i \in DOMAIN seq : seq[i].id = id

\* C10: deleting an id removes the layer with that id and no other, leaves
\* the remaining layers as they were and in the order they had, and clears
\* the selection exactly when the deleted id was the selected one
C10_DeleteRemovesOne ==
    [][ effect'.op = "delete" =>
            LET id == effect'.target
            IN  /\ {layers'[i] : i \in DOMAIN layers'} =
                       {layers[i] : i \in {j \in DOMAIN layers : layers[j].id # id}}
                /\ Len(layers') =
                       Cardinality({j \in DOMAIN layers : layers[j].id # id})
                /\ \A a, b \in DOMAIN layers' :
                       a < b => Position(layers, layers'[a].id)
                                    < Position(layers, layers'[b].id)
                /\ selectedLayerId' = IF selectedLayerId = id THEN Null
                                                              ELSE selectedLayerId ]_vars

\* C10 happens: a layer that was not the selected one has been deleted from
\* three, and the selected layer is among the two that stay
C10_Witness ==
    /\ effect.op = "delete"
    /\ Len(layers) = 2
    /\ selectedLayerId \in LayerIds

\* the layer with this id in a layer sequence
LayerIn(seq, id) == seq[Position(seq, id)]

\* the font size f is max(12, f0 * h / h0), as numbers
FontIsScaled(f, f0, h, h0) ==
    IF f0.n * h < 12 * f0.d * h0
    THEN f.n = 12 * f.d
    ELSE f.n * f0.d * h0 = f.d * f0.n * h

\* C11: every resize event on a text layer from a corner handle sets the
\* font size to max(12, startFontSize * newHeight / startHeight), with the
\* height and font size the layer had when the resize gesture started; every
\* resize event from an edge handle leaves the font size as it is
C11_CornerScalesFont ==
    [][ (effect'.op = "resize" /\ LayerOf(effect'.target).type = "TEXT") =>
            LET id == effect'.target
                old == LayerOf(id)
                new == LayerIn(layers', id)
                start == comp[id].atResizeStart[1]
            IN  IF comp[id].resizing[1].direction \in Corners
                THEN FontIsScaled(new.style.fontSize, start.style.fontSize,
                                  new.height, start.height)
                ELSE new.style.fontSize = old.style.fontSize ]_vars

\* C11 happens: a corner resize took a text layer from height 150 and font
\* size 42 to height 225 and font size 63
C11_Witness ==
    /\ effect.op = "resize"
    /\ effect.target \in LayerIds
    /\ LayerOf(effect.target).type = "TEXT"
    /\ comp[effect.target].resizing # None
    /\ comp[effect.target].resizing[1].direction \in Corners
    /\ comp[effect.target].atResizeStart[1].height = 150
    /\ comp[effect.target].atResizeStart[1].style.fontSize = Frac(42, 1)
    /\ LayerOf(effect.target).height = 225
    /\ LayerOf(effect.target).style.fontSize = Frac(63, 1)

\* the multiples of 90 around the rotations the model follows
RightAngles == { 90 * k : k \in (0 - (MaxAngle \div 90 + 2)) .. (MaxAngle \div 90 + 2) }

\* a and b are less than 5 degrees apart
Within5(a, b) == a - b < 5 /\ b - a < 5

\* C12: a rotate update stores the multiple of 90 nearest to the candidate
\* rotation when the candidate is within 5 degrees of one, and the
\* candidate itself otherwise
C12_SnapsToNearest ==
    [][ effect'.op = "rotate" =>
            LET id == effect'.target
                r == comp'[id].candidate
                stored == LayerIn(layers', id).rotation
            IN  IF \E m \in RightAngles : Within5(r, m)
                THEN Within5(r, stored) /\ stored \in RightAngles
                ELSE stored = r ]_vars

\* C13: outside the compact layout a sticker that was just added is a
\* square whose centre is the centre of the frame (x and y in tenths of a
\* pixel)
C13_StickerCentred ==
    (effect.op = "addSticker" /\ effect.target # Null /\ ~isMobile) =>
        LET sticker == LayerOf(effect.target)
        IN  /\ sticker.width = sticker.height
            /\ 2 * sticker.x + 10 * sticker.width = 10 * aspectRatio.width
            /\ 2 * sticker.y + 10 * sticker.height = 10 * aspectRatio.height

\* C14: an add that succeeds puts the new layer last, leaves the layers
\* that were there as they were and in their order, and selects the new
\* layer, which has a fresh id, rotation 0 and, if it is a text, the
\* default style
C14_AddAppends ==
    [][ (effect'.op \in {"addText", "addSticker"} /\ effect'.target # Null) =>
            LET new == layers'[Len(layers')]
            IN  /\ Len(layers') = Len(layers) + 1
                /\ SubSeq(layers', 1, Len(layers)) = layers
                /\ new.id = effect'.target
                /\ new.id \notin LayerIds
                /\ selectedLayerId' = new.id
                /\ new.rotation = 0
                /\ new.type = (IF effect'.op = "addText" THEN "TEXT" ELSE "STICKER")
                /\ new.type = "TEXT" => new.style = INITIAL_TEXT_STYLE ]_vars

\* C14 happens: a sticker was added as the third layer and is selected
C14_Witness ==
    /\ effect.op = "addSticker"
    /\ Len(layers) = 3
    /\ layers[3].id = effect.target
    /\ selectedLayerId = effect.target

\* C15: updateLayer with an id no layer has, and updateLayerStyle with an
\* id no layer has or with the id of a sticker, change no layer, not the
\* order and not the selection, and raise no notice
C15_MalformedUpdateIsNoOp ==
    [][ /\ (effect'.op = "update" /\ effect'.target \notin LayerIds) =>
              /\ layers' = layers
              /\ selectedLayerId' = selectedLayerId
              /\ effect'.alert = ""
        /\ (/\ effect'.op = "updateStyle"
            /\ \/ effect'.target \notin LayerIds
               \/ LayerOf(effect'.target).type = "STICKER") =>
              /\ layers' = layers
              /\ selectedLayerId' = selectedLayerId
              /\ effect'.alert = "" ]_vars

\* C15 happens: updateLayerStyle was called on a sticker that is in the
\* store
C15_Witness ==
    /\ effect.op = "updateStyle"
    /\ effect.target \in LayerIds
    /\ LayerOf(effect.target).type = "STICKER"

\* C16: right after an image load completes and right after a reset the
\* background configuration is the default one
C16_BackgroundReset ==
    effect.op \in {"imageLoaded", "reset"} => bgConfig = INITIAL_BG_CONFIG

\* C17: in every reachable state the font size of every text layer is at
\* least 12
C17_FontAtLeast12 ==
    \A i \in DOMAIN layers :
        layers[i].type = "TEXT" =>
            layers[i].style.fontSize.n >= 12 * layers[i].style.fontSize.d

\* C18: in every reachable state every layer is at least 30 wide and 30
\* high
C18_SizeAtLeast30 ==
    \A i \in DOMAIN layers : layers[i].width >= 30 /\ layers[i].height >= 30

\* C18 happens: a resize asked for less than the minimum on a sticker,
\* whose proportions are locked, and left it 30 by 30
C18_Witness ==
    /\ effect.op = "resize"
    /\ effect.target \in LayerIds
    /\ LayerOf(effect.target).type = "STICKER"
    /\ LayerOf(effect.target).width = 30
    /\ LayerOf(effect.target).height = 30

\* C19: in every state, of any two layers the one later in the layer
\* sequence is painted above the earlier one, whichever layer is selected
C19_LaterPaintedAbove ==
    \A i, j \in DOMAIN layers : i < j => PaintedAbove(j, i)

\* C20: for any layer at most one of the resize and rotate gestures is
\* active; while it rotates, dragging and resizing are disabled; while its
\* text is edited, dragging, resizing and the rotation handle are unavailable
C20_OneGestureAtATime ==
    \A id \in LayerIds :
        /\ ~(comp[id].resizing # None /\ comp[id].isRotating)
        /\ comp[id].isRotating => disableDragging(id) /\ ~enableResizing(id)
        /\ comp[id].isEditing =>
              disableDragging(id) /\ ~enableResizing(id) /\ ~ChromeShown(id)

\* r is text t without the white space t starts and ends with
IsTrimOf(r, t) ==
    /\ r = << >> \/ (Head(r) # Blank /\ r[Len(r)] # Blank)
    /\ \E i, j \in 0 .. Len(t) :
          /\ i + Len(r) + j = Len(t)
          /\ \A k \in 1 .. Len(t) :
                t[k] = IF k > i /\ k <= i + Len(r) THEN r[k - i] ELSE Blank

\* C21 as stated: the call always returns a caption; without a credential or
\* when the generation call fails it is the fallback caption, and when the
\* call succeeds it is the generated text
C21_ReturnsGeneratedText ==
    caption.pc = "done" =>
        /\ caption.result # None
        /\ caption.response = None => caption.result = Some(FALLBACK_CAPTION)
        /\ caption.response # None => caption.result = caption.response[1].text

\* C21, amended: the call always returns a caption; it is the fallback
\* caption without a credential, when the generation call fails and when the
\* response carries no text, and otherwise the generated text without its
\* leading and trailing white space
C21_ReturnsTrimmedText ==
    caption.pc = "done" =>
        /\ caption.result # None
        /\ caption.response = None => caption.result = Some(FALLBACK_CAPTION)
        /\ caption.response # None =>
              IF caption.response[1].text = None
              THEN caption.result = Some(FALLBACK_CAPTION)
              ELSE IsTrimOf(caption.result[1], caption.response[1].text[1])

\* C21 happens: a call that succeeded with white space around the text
\* returned the text between
C21_Witness ==
    /\ caption.pc = "done"
    /\ caption.response # None
    /\ caption.response[1].text = Some(<< Blank, "h", "i" >>)
    /\ caption.result = Some(<< "h", "i" >>)

\* C22: after any resize event of a corner-resize gesture on a text layer,
\* the first or a later one, the font size is max(12, startFontSize *
\* height / startHeight) for the height and font size the layer had when
\* this gesture started, and the component holds exactly these start values
C22_NoCompounding ==
    \A id \in LayerIds :
        ( /\ effect.op = "resize" /\ effect.target = id
          /\ LayerOf(id).type = "TEXT"
          /\ comp[id].resizing # None
          /\ comp[id].resizing[1].direction \in Corners ) =>
            LET start == comp[id].atResizeStart[1]
            IN  /\ comp[id].resizeStartData =
                      Some([ width |-> start.width, height |-> start.height,
                             fontSize |-> start.style.fontSize ])
                /\ FontIsScaled(LayerOf(id).style.fontSize, start.style.fontSize,
                                LayerOf(id).height, start.height)

\* C22 happens: a first gesture left the layer 30 high with the font size
\* floored at 12, and a second corner gesture that started from there took
\* it to height 225 and font size 90 (the first gesture's start values, 150
\* and 42, would give 63)
C22_Witness ==
    /\ effect.op = "resize"
    /\ effect.target \in LayerIds
    /\ LayerOf(effect.target).type = "TEXT"
    /\ comp[effect.target].resizing # None
    /\ comp[effect.target].resizing[1].direction \in Corners
    /\ comp[effect.target].atResizeStart[1].height = 30
    /\ comp[effect.target].atResizeStart[1].style.fontSize = Frac(12, 1)
    /\ LayerOf(effect.target).height = 225
    /\ LayerOf(effect.target).style.fontSize = Frac(90, 1)

\* C23: a move event of a rotate gesture at the pointer position where the
\* gesture started (the pointer's angle is the candidate plus the offset)
\* stores the rotation the layer had before the gesture
C23_NoJump ==
    \A id \in LayerIds :
        ( /\ effect.op = "rotate" /\ effect.target = id
          /\ comp[id].atRotateStart # None
          /\ comp[id].candidate + comp[id].rotateOffset =
                comp[id].atRotateStart[1].angle ) =>
            LayerOf(id).rotation = comp[id].atRotateStart[1].rotation

\* C24: after every step, a mounted component holds its four window
\* listeners exactly while its rotate gesture is active and none otherwise,
\* no listener belongs to a layer that is gone, and a rotation update is
\* applied only by a step taken while the layer's rotate gesture is active
C24_ListenersWhileRotating ==
    [][ /\ \A id \in DOMAIN comp' :
              {l \in listeners' : l.owner = id} =
                 IF comp'[id].isRotating THEN Attached(id) ELSE {}
        /\ \A l \in listeners' : l.owner \in LayerIds'
        /\ effect'.op = "rotate" =>
              /\ effect'.target \in LayerIds
              /\ comp[effect'.target].isRotating ]_vars

\* C24 happens: a rotate gesture that turned the layer has ended on
\* pointer-up, and window holds no listener any more
C24_Witness ==
    /\ effect.op = "rotateEnd"
    /\ effect.target \in LayerIds
    /\ ~comp[effect.target].isRotating
    /\ LayerOf(effect.target).rotation = 270
    /\ listeners = {}

\* C25: a step that selects a canvas frame, a preset or the original size,
\* leaves the layer sequence with every field of every layer, the selection
\* and the background configuration as they were
C25_FrameKeepsLayers ==
    [][ effect'.op = "setAspectRatio" =>
            /\ layers' = layers
            /\ selectedLayerId' = selectedLayerId
            /\ bgConfig' = bgConfig ]_vars

\* C25 happens: the frame was changed to the original size on an editor
\* with two layers, one of them selected, and a moved background
C25_Witness ==
    /\ effect.op = "setAspectRatio"
    /\ aspectRatio.name = "original"
    /\ Len(layers) = 2
    /\ selectedLayerId \in LayerIds
    /\ bgConfig # INITIAL_BG_CONFIG

\* C26: whenever an image is shown, the composed background is moved by the
\* configured (x, y) canonical pixels whatever the scale, as a transform
\* list of translate then scale makes it
C26_TranslationAsConfigured ==
    image # Null =>
        BackgroundTranslation = [x |-> 10 * bgConfig.x, y |-> 10 * bgConfig.y]

\* C27: every export that has started eventually finishes, with or without
\* a download, and its finally block leaves the busy flag false
C27_ExportFinishes ==
    \A e \in ExportSlots :
        (exports[e].pc # "idle") ~>
            (exports[e].pc = "idle" /\ effect.op = "exportDone" /\ ~isExporting)

\* C27 happens: an export has finished after both of its attempts rejected,
\* and the busy flag is false
C27_Witness ==
    /\ effect.op = "exportDone"
    /\ effect.alert # ""
    /\ effect.download = None
    /\ InFlight = {}
    /\ ~isExporting

\* the step changes nothing of the store but the given fields of layer id
OnlyChanges(id, fields) ==
    /\ Len(layers') = Len(layers)
    /\ \A i \in DOMAIN layers :
          IF layers[i].id = id
          THEN /\ DOMAIN layers'[i] = DOMAIN layers[i]
               /\ \A k \in (DOMAIN layers[i]) \ fields :
                     layers'[i][k] = layers[i][k]
          ELSE layers'[i] = layers[i]
    /\ selectedLayerId' = selectedLayerId

\* C28: the update of a drag stop changes only x and y of the dragged layer,
\* and a rotate update only the rotation of the rotated layer; every other
\* field, every other layer, the order and the selection stay
C28_GestureUpdatesOwnFields ==
    [][ /\ effect'.op = "drag" => OnlyChanges(effect'.target, {"x", "y"})
        /\ effect'.op = "rotate" => OnlyChanges(effect'.target, {"rotation"}) ]_vars

\* C28 happens: the first of two layers was dropped at (120.5, 64) while the
\* second one is selected
C28_Witness ==
    /\ effect.op = "drag"
    /\ Len(layers) = 2
    /\ layers[1].id = effect.target
    /\ layers[1].x = 1205 /\ layers[1].y = 640
    /\ layers[2].x # 1205
    /\ selectedLayerId = layers[2].id

\* C29: whenever an image is loaded and the frame is in original mode, the
\* frame has the natural width and height of the loaded image
C29_OriginalFrameIsNatural ==
    (image # Null /\ aspectRatio.name = "original") =>
        \E f \in ImageFiles :
            /\ image = DataUrl(f)
            /\ aspectRatio.width = NaturalSize(f).width
            /\ aspectRatio.height = NaturalSize(f).height

\* C30: in every reachable state a layer sequence that is not empty comes
\* with a loaded background image
C30_LayersNeedImage == layers # << >> => image # Null

\* C30 happens: a reset on an editor that had created layers has left
\* neither an image nor a layer
C30_Witness ==
    /\ effect.op = "reset"
    /\ nextId > 0
    /\ layers = << >>
    /\ image = Null

====
